---- MODULE Spec2Model ----
(***************************************************************************)
(* Model of the semantic search Q&A service:                               *)
(*   services/application_service.py  ApplicationService                   *)
(*   services/search_service.py       SearchService                        *)
(*   services/embedding_service.py    EmbeddingService                     *)
(*   services/qa_service.py           QAService                            *)
(*   api/routes.py                    the HTTP handlers                    *)
(*   utils/helpers.py                 encode_text_to_embedding_batched     *)
(*                                                                         *)
(* Python exceptions are explicit values: every modelled call returns a    *)
(* record with ok = TRUE and a value, or ok = FALSE and the exception.     *)
(* Messages are sequences of string pieces (str concatenation is \o).      *)
(* The external collaborators (embedding model, ScaNN index, generation    *)
(* model) are inputs of the actions, drawn from small sets.                *)
(***************************************************************************)
EXTENDS Integers, Sequences, FiniteSets, TLC

VARIABLES
    csvRows,        \* number of rows of the dataset file at DATA_PATH
    csvColumns,     \* the columns of the dataset file
    pklEmbeddings,  \* the embedding array pickled at EMBEDDINGS_PATH
    phase,          \* "startup", "serving", "crashed" (import of app_service)
    database,       \* ApplicationService.database / SearchService.database
    embeddings,     \* ApplicationService.embeddings / SearchService.embeddings
    index,          \* SearchService.index
    request,        \* the request being answered
    result,         \* what search_and_answer produced for it
    searched,       \* what the search step returned to search_and_answer
    response,       \* the HTTP response of the route
    calls,          \* calls made while serving the request, in order
    sentences,      \* encode_text_to_embedding_batched: argument
    batch_size,     \* encode_text_to_embedding_batched: argument
    api_rate,       \* api_calls_per_second as <<numerator, denominator>>
    i,              \* loop variable of the batch loop
    embList,        \* the local list `embeddings` of the batch function
    events,         \* provider calls and sleeps of the batch function
    failedBatches,  \* batch numbers whose provider call raised
    bpc,            \* "idle", "loop", "done" position of the batch function
    returned,       \* the array the batch function returned
    xEmbeddings,    \* exact_search on its own: self.embeddings
    xProvider,      \* exact_search on its own: what the embedding model answers
    xK,             \* exact_search on its own: k
    xResult         \* exact_search on its own: None, or what the call returned

vars == <<csvRows, csvColumns, pklEmbeddings, phase, database, embeddings, index, request,
          result, searched, response, calls, sentences, batch_size, api_rate,
          i, embList, events, failedBatches, bpc, returned,
          xEmbeddings, xProvider, xK, xResult>>

serviceVars == <<csvRows, csvColumns, pklEmbeddings, phase, database, embeddings, index,
                 request, result, searched, response, calls>>

batchVars == <<sentences, batch_size, api_rate, i, embList, events,
               failedBatches, bpc, returned>>

searchVars == <<xEmbeddings, xProvider, xK, xResult>>

----------------------------------------------------------------------------
(* Bounds *)

MaxN == 3          \* largest embedding array exact_search is applied to
MaxDocs == 2       \* largest embedding array the service is started with
EmbDim == 2        \* dimensionality of the corpus and query vectors
MaxCoord == 1      \* vector components range over -MaxCoord..MaxCoord
MaxSentences == 4  \* longest input list of the batch function
MaxBatch == 2      \* largest batch_size tried

----------------------------------------------------------------------------
(* Values *)

None == [none |-> TRUE]

Ok(v) == [ok |-> TRUE, val |-> v]

Raise(cls, msg) == [ok |-> FALSE, exc |-> [cls |-> cls, msg |-> msg]]

\* str(e)
Str(e) == e.msg

RECURSIVE SumSeq(_)
SumSeq(s) == IF s = <<>> THEN 0 ELSE Head(s) + SumSeq(Tail(s))

Dot(u, v) == SumSeq([j \in 1..Len(u) |-> u[j] * v[j]])

NormSq(v) == Dot(v, v)

Sgn(x) == IF x > 0 THEN 1 ELSE IF x < 0 THEN -1 ELSE 0

Reverse(s) == [j \in 1..Len(s) |-> s[Len(s) + 1 - j]]

Range(s) == {s[j] : j \in DOMAIN s}

\* all orderings of a finite set of integers, as sequences
Perms(S) ==
    {p \in [1..Cardinality(S) -> S] : \A a, b \in 1..Cardinality(S) : a # b => p[a] # p[b]}

\* the vectors exact_search is tried on: what the embedding model can return
\* for a query (the empty vector included) and the rows of the array
QueryVecs == [1..EmbDim -> (0 - MaxCoord)..MaxCoord] \cup {<<>>}

CorpusVecs == [1..EmbDim -> 0..MaxCoord]

\* the vectors the service is run on
ServiceQueryVecs == {<<>>, <<0, 0>>, <<1, 0>>, <<0, 1>>, <<0 - 1, 1>>}

ServiceCorpusVecs == {<<0, 0>>, <<1, 0>>, <<1, 1>>}

Queries == {"what is x"}

\* the row of the dataset at 0-based position id, a value per column
Row(id, columns) == [c \in columns |-> <<c, id>>]

Columns == {"input_text", "output_text", "embeddings"}

----------------------------------------------------------------------------
(* services/embedding_service.py *)

\* EmbeddingService.get_embeddings([text]) followed by [0]; provider is the
\* outcome of self.model.get_embeddings(texts)
get_single_embedding(provider) ==
    IF provider.ok
    THEN Ok(provider.val)
    ELSE Raise("Exception", <<"Failed to get embeddings: ">> \o Str(provider.exc))

----------------------------------------------------------------------------
(* services/search_service.py *)

\* query_embedding / np.linalg.norm(query_embedding): a zero vector divides by
\* a zero norm and becomes all-NaN, an empty vector stays empty
Normalize(q) ==
    IF q = <<>> THEN [kind |-> "empty", of |-> q]
    ELSE IF NormSq(q) = 0 THEN [kind |-> "nan", of |-> q]
    ELSE [kind |-> "unit", of |-> q]

\* sklearn normalises with zero norms replaced by 1
NormSqNZ(v) == IF NormSq(v) = 0 THEN 1 ELSE NormSq(v)

\* One cosine similarity, kept exact as the signed square num/den of the
\* cosine (an order-preserving image of the cosine).
Cosine(q, e) ==
    [num |-> Sgn(Dot(q, e)) * Dot(q, e) * Dot(q, e), den |-> NormSqNZ(q) * NormSqNZ(e)]

ScoreLeq(s, t) == s.num * t.den <= t.num * s.den

ScoreEq(s, t) == s.num * t.den = t.num * s.den

\* cosine_similarity([query_embedding], self.embeddings)[0]; position id+1
\* holds the score of document id
cosine_similarity(q, embs) ==
    IF Len(q) = 0 \/ \E r \in DOMAIN embs : Len(embs[r]) # Len(q)
    THEN Raise("ValueError", <<"Incompatible dimension for X and Y matrices">>)
    ELSE Ok([r \in DOMAIN embs |-> Cosine(q, embs[r])])

\* np.argpartition(a, kth): every index order in which position kth holds an
\* element in its sorted place, nothing larger before it and nothing smaller
\* after it.  The order inside the two parts is not defined by numpy.
argpartition(a, kth) ==
    LET n == Len(a) IN
    IF kth < 0 - n \/ kth >= n
    THEN {Raise("ValueError", <<"kth out of bounds">>)}
    ELSE LET p == IF kth < 0 THEN kth + n ELSE kth IN
         {Ok(perm) : perm \in
            {pm \in Perms(0..(n - 1)) :
                /\ \A b \in 1..p : ScoreLeq(a[pm[b] + 1], a[pm[p + 1] + 1])
                /\ \A b \in (p + 2)..n : ScoreLeq(a[pm[p + 1] + 1], a[pm[b] + 1])}}

\* s[-k:] of a Python sequence
SliceLast(s, k) ==
    LET n == Len(s)
        start == IF k > 0 THEN (IF k >= n THEN 0 ELSE n - k)
                 ELSE (IF 0 - k >= n THEN n ELSE 0 - k)
    IN [j \in 1..(n - start) |-> s[start + j]]

\* idx[np.argsort(a[idx])]: idx reordered by ascending score; the default
\* sort kind is not stable, so equal scores come out in any order
argsort_take(a, idx) ==
    {[j \in 1..Len(idx) |-> idx[o[j]]] : o \in
        {pm \in Perms(1..Len(idx)) :
            \A b \in 1..(Len(idx) - 1) : ScoreLeq(a[idx[pm[b]] + 1], a[idx[pm[b + 1]] + 1])}}

\* lines 71-77 of exact_search: the possible (ids, similarities) pairs
top_k(a, k) ==
    UNION {IF part.ok
           THEN {Ok([ids |-> Reverse(srt),
                     sims |-> [j \in 1..Len(srt) |-> a[Reverse(srt)[j] + 1]]]) :
                    srt \in argsort_take(a, SliceLast(part.val, k))}
           ELSE {part} : part \in argpartition(a, 0 - k)}

\* SearchService.exact_search: the set of outcomes the call can have
exact_search(provider, embs, k) ==
    LET emb == get_single_embedding(provider) IN
    IF ~emb.ok
    THEN {[res |-> Raise("Exception", <<"Exact search failed: ">> \o Str(emb.exc)),
           log |-> <<[op |-> "exact_search", q |-> <<>>], [op |-> "embed", q |-> <<>>]>>]}
    ELSE LET cs == cosine_similarity(emb.val, embs)
             log == <<[op |-> "exact_search", q |-> <<>>], [op |-> "embed", q |-> <<>>], [op |-> "cosine_similarity", q |-> emb.val]>>
         IN IF ~cs.ok
            THEN {[res |-> Raise("Exception", <<"Exact search failed: ">> \o Str(cs.exc)),
                   log |-> log]}
            ELSE {[res |-> IF t.ok THEN t
                           ELSE Raise("Exception", <<"Exact search failed: ">> \o Str(t.exc)),
                   log |-> log] : t \in top_k(cs.val, k)}

\* the distances reported for the neighbours: the re-scored dot product of
\* the unit vectors, NaN when the query or the indexed row is NaN
Distance(nq, row) ==
    IF nq.kind = "unit" /\ row.kind = "unit" THEN Cosine(nq.of, row.of)
    ELSE [num |-> 0, den |-> 0]

\* the orderings of a set of row numbers by descending distance
ByDistance(nq, idx, S) ==
    {o \in Perms(S) :
        \A b \in 1..(Cardinality(S) - 1) :
            ScoreLeq(Distance(nq, idx.rows[o[b + 1] + 1]), Distance(nq, idx.rows[o[b] + 1]))}

\* What self.index.search(normalized_query, final_num_neighbors=k) can
\* answer: the ScaNN searcher is an external library that probes part of the
\* leaves and re-scores what it found, so any at most k row numbers of the
\* indexed array, best first, or an exception.
IndexAnswers(nq, idx, k) ==
    {Raise("RuntimeError", <<"scann">>)} \cup
    {Ok(ids) : ids \in UNION {ByDistance(nq, idx, S) : S \in
        {T \in SUBSET (0..(Len(idx.rows) - 1)) : Cardinality(T) <= k}}}

\* SearchService.semantic_search; answer is what self.index.search does
semantic_search(provider, idx, k, answer) ==
    LET emb == get_single_embedding(provider) IN
    IF ~emb.ok
    THEN [res |-> Raise("Exception", <<"Semantic search failed: ">> \o Str(emb.exc)),
          log |-> <<[op |-> "semantic_search", q |-> <<>>], [op |-> "embed", q |-> <<>>]>>]
    ELSE LET nq == Normalize(emb.val)
             log == <<[op |-> "semantic_search", q |-> <<>>], [op |-> "embed", q |-> <<>>], [op |-> "index.search", q |-> emb.val]>>
         IN IF ~answer.ok
            THEN [res |-> Raise("Exception", <<"Semantic search failed: ">> \o Str(answer.exc)),
                  log |-> log]
            ELSE [res |-> Ok([ids |-> answer.val,
                              sims |-> [j \in 1..Len(answer.val) |->
                                           Distance(nq, idx.rows[answer.val[j] + 1])]]),
                  log |-> log]

\* SearchService.get_document; row['embeddings'] raises KeyError when the
\* dataset has no such column
get_document(db, doc_id) ==
    IF 0 <= doc_id /\ doc_id < Len(db)
    THEN LET row == db[doc_id + 1] IN
         IF {"input_text", "output_text", "embeddings"} \subseteq DOMAIN row
         THEN Ok([id |-> doc_id, question |-> row.input_text, answer |-> row.output_text,
                  embeddings |-> row.embeddings])
         ELSE Raise("Exception",
                    <<"Failed to get document ", doc_id, ": ", "KeyError">>)
    ELSE Ok(None)

----------------------------------------------------------------------------
(* services/qa_service.py *)

\* str.strip() on a text given as a sequence of characters
RECURSIVE LStrip(_)
LStrip(t) == IF t # <<>> /\ Head(t) = " " THEN LStrip(Tail(t)) ELSE t

Strip(t) == Reverse(LStrip(Reverse(LStrip(t))))

\* QAService._build_prompt
build_prompt(query, context) ==
    <<"Here is the context: ">> \o context \o
    <<"\n\nUsing the relevant information from the context, provide an answer to the query: \"",
      query, "\".\n\nIf the context doesn't provide any relevant information, answer with:\n",
      "[I couldn't find a good match in the document database for your query]\n\nAnswer:">>

\* QAService.generate_answer; gen is the outcome of self.model.predict
generate_answer(gen) ==
    IF gen.ok
    THEN Ok(Strip(gen.val))
    ELSE Raise("Exception", <<"Failed to generate answer: ">> \o Str(gen.exc))

----------------------------------------------------------------------------
(* services/application_service.py *)

\* time.time() advances by one second per logged call
latency_ms(log) == Len(log) * 1000

\* the dispatch with its two branches exchanged
SearchStepSwapped(use_approximate, provider, idx, embs, k) ==
    IF ~use_approximate
    THEN {semantic_search(provider, idx, k, answer) :
             answer \in IndexAnswers(Normalize(IF provider.ok THEN provider.val ELSE <<>>),
                                     idx, k)}
    ELSE exact_search(provider, embs, k)

\* lines 43-46: the search strategy the request is dispatched to
SearchStep(use_approximate, provider, idx, embs, k) ==
    IF use_approximate
    THEN {semantic_search(provider, idx, k, answer) :
             answer \in IndexAnswers(Normalize(IF provider.ok THEN provider.val ELSE <<>>),
                                     idx, k)}
    ELSE exact_search(provider, embs, k)

\* the except clause left out: the exception leaves search_and_answer
CatchAllReraise(e, log) == [raised |-> TRUE, via |-> "propagated", exc |-> e]

\* lines 80-85: the except clause of search_and_answer
CatchAll(e, log) ==
    [raised |-> FALSE, via |-> "except",
     value |-> [success |-> FALSE, error |-> Str(e), latency_ms |-> latency_ms(log)]]

\* lines 48-78, after the search step returned or raised: s is the outcome
\* of the search step, gen the outcome of the generation model
search_and_answer(query, use_approximate, s, db, gen) ==
    IF ~s.res.ok THEN [out |-> CatchAll(s.res.exc, s.log), log |-> s.log]
    ELSE IF s.res.val.ids = <<>>
    THEN [out |-> CatchAll([cls |-> "IndexError", msg |-> <<"list index out of range">>], s.log),
          log |-> s.log]
    ELSE LET best_doc_id == s.res.val.ids[1]
             best_similarity == s.res.val.sims[1]
             lookup == get_document(db, best_doc_id)
             document == lookup.val
         IN IF ~lookup.ok THEN [out |-> CatchAll(lookup.exc, s.log), log |-> s.log]
            ELSE IF document = None
            THEN [out |-> [raised |-> FALSE, via |-> "no document",
                           value |-> [success |-> FALSE,
                                      error |-> <<"No relevant document found">>,
                                      latency_ms |-> latency_ms(s.log)]],
                  log |-> s.log]
            ELSE LET context == <<"Question: ">> \o document.question \o
                                <<"\nAnswer: ">> \o document.answer
                     log == Append(s.log, [op |-> "generate", q |-> build_prompt(query, context)])
                     answer == generate_answer(gen)
                 IN IF ~answer.ok
                    THEN [out |-> CatchAll(answer.exc, log), log |-> log]
                    ELSE [out |-> [raised |-> FALSE, via |-> "success",
                                   value |-> [success |-> TRUE, query |-> query,
                                              answer |-> answer.val,
                                              source_document |->
                                                 [id |-> document.id,
                                                  question |-> document.question,
                                                  answer |-> document.answer,
                                                  similarity_score |-> best_similarity],
                                              search_method |-> IF use_approximate
                                                                THEN "approximate" ELSE "exact",
                                              latency_ms |-> latency_ms(log)]],
                          log |-> log]

----------------------------------------------------------------------------
(* api/routes.py *)

StatusText(status) ==
    IF status = 400 THEN "400: " ELSE IF status = 404 THEN "404: " ELSE "500: "

\* raise HTTPException(status_code=status, detail=detail)
HTTPException(status, detail) ==
    [ok |-> FALSE, exc |-> [cls |-> "HTTPException", status |-> status, detail |-> detail,
                            msg |-> <<StatusText(status)>> \o detail]]

\* `except Exception as e: raise HTTPException(status_code=500, detail=str(e))`
\* around a handler body; HTTPException is itself an Exception
RouteExcept(body) ==
    IF body.ok THEN [status |-> 200, body |-> body.val]
    ELSE [status |-> 500, detail |-> Str(body.exc)]

\* body of semantic_search and semantic_search_get, lines 47-56 and 69-78
search_route_body(out) ==
    IF out.raised THEN [ok |-> FALSE, exc |-> out.exc]
    ELSE IF ~out.value.success THEN HTTPException(400, out.value.error)
    ELSE Ok(out.value)

\* body of the get_document handler, lines 87-90
document_route_body(db, doc_id) ==
    LET lookup == get_document(db, doc_id) IN
    IF ~lookup.ok THEN lookup
    ELSE IF lookup.val = None THEN HTTPException(404, <<"Document not found">>)
    ELSE lookup

----------------------------------------------------------------------------
(* The service: start-up and one request at a time per worker *)

NoRequest == [op |-> "none"]

Corpora(vecs, max) == UNION {[1..n -> vecs] : n \in 1..max}

Ks(max) == 0..(max + 1)

DocIds == (0 - 1)..(MaxDocs + 1)

GenTexts == {<<" ", "y", " ">>}

ProviderAnswers(vecs) ==
    {Ok(v) : v \in vecs} \cup {Raise("RuntimeError", <<"embedding provider">>)}

GenAnswers == {Ok(t) : t \in GenTexts} \cup {Raise("RuntimeError", <<"generation provider">>)}

ServiceInit ==
    /\ csvRows \in 0..(MaxDocs + 1)
    /\ csvColumns \in {Columns, Columns \ {"embeddings"}}
    /\ pklEmbeddings \in Corpora(ServiceCorpusVecs, MaxDocs)
    /\ phase = "startup"
    /\ database = <<>>
    /\ embeddings = <<>>
    /\ index = None
    /\ request = NoRequest
    /\ result = None
    /\ searched = None
    /\ response = None
    /\ calls = <<>>

\* SearchService._build_index: the rows divided by their norms, handed to the
\* ScaNN builder
build_index(embs) == [rows |-> [r \in DOMAIN embs |-> Normalize(embs[r])]]

\* ApplicationService.__init__ at import of services.application_service:
\* _load_database, _load_embeddings, SearchService(...), which builds the
\* index.  Any of the three can raise, and then the module import fails.
ApplicationService_init ==
    /\ phase = "startup"
    /\ \E loaded, built \in BOOLEAN :
          IF loaded /\ built
          THEN /\ database' = [r \in 1..csvRows |-> Row(r - 1, csvColumns)]
               /\ embeddings' = pklEmbeddings
               /\ index' = build_index(pklEmbeddings)
               /\ phase' = "serving"
          ELSE /\ phase' = "crashed"
               /\ UNCHANGED <<database, embeddings, index>>
    /\ UNCHANGED <<csvRows, csvColumns, pklEmbeddings, request, result, searched, response, calls>>
    /\ UNCHANGED batchVars
    /\ UNCHANGED searchVars

\* the request gets as far as the generation model
Generates(s, db) ==
    /\ s.res.ok
    /\ s.res.val.ids # <<>>
    /\ get_document(db, s.res.val.ids[1]).ok
    /\ get_document(db, s.res.val.ids[1]).val # None

\* what both search handlers do with a request
ServeSearch(op, query, use_approximate, k) ==
    /\ phase = "serving"
    /\ request = NoRequest
    /\ \E provider \in ProviderAnswers(ServiceQueryVecs) :
       \E s \in SearchStep(use_approximate, provider, index, embeddings, k) :
       \E gen \in IF Generates(s, database) THEN GenAnswers ELSE {None} :
          LET r == search_and_answer(query, use_approximate, s, database, gen) IN
          /\ request' = [op |-> op, query |-> query, use_approximate |-> use_approximate,
                         k |-> k]
          /\ searched' = s.res
          /\ result' = r.out
          /\ calls' = r.log
          /\ response' = RouteExcept(search_route_body(r.out))
    /\ UNCHANGED <<csvRows, csvColumns, pklEmbeddings, phase, database, embeddings, index>>
    /\ UNCHANGED batchVars
    /\ UNCHANGED searchVars

\* POST /search
semantic_search_post ==
    \E query \in Queries, use_approximate \in BOOLEAN, k \in Ks(MaxDocs) :
        ServeSearch("POST /search", query, use_approximate, k)

\* GET /search
semantic_search_get ==
    \E query \in Queries, use_approximate \in BOOLEAN, k \in Ks(MaxDocs) :
        ServeSearch("GET /search", query, use_approximate, k)

\* GET /documents/{doc_id}
get_document_route ==
    /\ phase = "serving"
    /\ request = NoRequest
    /\ \E doc_id \in DocIds :
          /\ request' = [op |-> "GET /documents", doc_id |-> doc_id]
          /\ response' = RouteExcept(document_route_body(database, doc_id))
    /\ UNCHANGED <<csvRows, csvColumns, pklEmbeddings, phase, database, embeddings,
                   index, result, searched, calls>>
    /\ UNCHANGED batchVars
    /\ UNCHANGED searchVars

\* the response is sent and the worker takes the next request
Reply ==
    /\ request # NoRequest
    /\ request' = NoRequest
    /\ result' = None
    /\ searched' = None
    /\ response' = None
    /\ calls' = <<>>
    /\ UNCHANGED <<csvRows, csvColumns, pklEmbeddings, phase, database, embeddings, index>>
    /\ UNCHANGED batchVars
    /\ UNCHANGED searchVars

----------------------------------------------------------------------------
(* utils/helpers.py: encode_text_to_embedding_batched *)

EmbeddingDim == 768

Sentences == {"a", "b"}

ApiRates == {<<20, 60>>, <<1, 1>>}

BatchSizes == 1..MaxBatch

SentenceLists == UNION {[1..n -> Sentences] : n \in 0..MaxSentences}

\* A vector of the batch function is kept as its length and its leading
\* components up to the last non-zero one; the components after them are 0.

\* np.zeros(768)
ZeroVec == [dim |-> EmbeddingDim, lead |-> <<>>]

\* the .values of the provider's embedding of one sentence
ProviderVec(s) == [dim |-> EmbeddingDim, lead |-> IF s = "a" THEN <<1>> ELSE <<0, 1>>]

\* delay = 1 / api_calls_per_second, as <<numerator, denominator>> seconds
Delay(rate) == <<rate[2], rate[1]>>

\* sentences[lo:lo + size] with lo 0-based
Batch(sents, lo, size) ==
    [j \in 1..(IF lo + size <= Len(sents) THEN size ELSE Len(sents) - lo) |-> sents[lo + j]]

\* lines 24-25: the vectors appended for a batch the provider answered
ProviderFill(batch) == [j \in 1..Len(batch) |-> ProviderVec(batch[j])]

\* one zero vector for the whole failed batch
ZeroFillOnce(batch) == <<ZeroVec>>

\* lines 34-35: the vectors appended for a batch whose call raised
ZeroFill(batch) == [j \in 1..Len(batch) |-> ZeroVec]

\* lines 28-29: events of a batch the provider answered
AnsweredEvents(lo, size, n, rate) ==
    IF lo + size < n
    THEN <<[ev |-> "call", at |-> lo, delay |-> <<0, 1>>],
           [ev |-> "sleep", at |-> lo, delay |-> Delay(rate)]>>
    ELSE <<[ev |-> "call", at |-> lo, delay |-> <<0, 1>>]>>

\* lines 31-35: events of a batch whose call raised
FailedEvents(lo, size, n, rate) == <<[ev |-> "call", at |-> lo, delay |-> <<0, 1>>]>>

BatchInit ==
    /\ sentences = <<>>
    /\ batch_size = 1
    /\ api_rate = <<1, 1>>
    /\ i = 0
    /\ embList = <<>>
    /\ events = <<>>
    /\ failedBatches = {}
    /\ bpc = "idle"
    /\ returned = None

\* the call: lines 14-15
encode_call ==
    /\ bpc = "idle"
    /\ \E sents \in SentenceLists, size \in BatchSizes, rate \in ApiRates :
          /\ sentences' = sents
          /\ batch_size' = size
          /\ api_rate' = rate
    /\ i' = 0
    /\ embList' = <<>>
    /\ events' = <<>>
    /\ failedBatches' = {}
    /\ bpc' = "loop"
    /\ UNCHANGED returned
    /\ UNCHANGED serviceVars
    /\ UNCHANGED searchVars

\* one iteration of the for loop, lines 17-35; the provider call of the
\* batch returns one embedding per sentence or raises
encode_iteration ==
    /\ bpc = "loop"
    /\ i < Len(sentences)
    /\ LET batch == Batch(sentences, i, batch_size) IN
       \E answered \in BOOLEAN :
          IF answered
          THEN /\ embList' = embList \o ProviderFill(batch)
               /\ events' = events \o AnsweredEvents(i, batch_size, Len(sentences), api_rate)
               /\ UNCHANGED failedBatches
          ELSE /\ embList' = embList \o ZeroFill(batch)
               /\ events' = events \o FailedEvents(i, batch_size, Len(sentences), api_rate)
               /\ failedBatches' = failedBatches \cup {i \div batch_size}
    /\ i' = i + batch_size
    /\ UNCHANGED <<sentences, batch_size, api_rate, bpc, returned>>
    /\ UNCHANGED serviceVars
    /\ UNCHANGED searchVars

\* the loop is exhausted: return np.array(embeddings), line 37
encode_return ==
    /\ bpc = "loop"
    /\ i >= Len(sentences)
    /\ returned' = embList
    /\ bpc' = "done"
    /\ UNCHANGED <<sentences, batch_size, api_rate, i, embList, events, failedBatches>>
    /\ UNCHANGED serviceVars
    /\ UNCHANGED searchVars

----------------------------------------------------------------------------
(* SearchService.exact_search applied to one input *)

SearchInit ==
    /\ xEmbeddings \in Corpora(CorpusVecs, MaxN)
    /\ xProvider \in ProviderAnswers(QueryVecs)
    /\ xK \in Ks(MaxN)
    /\ xResult = None

SearchIdle ==
    /\ xEmbeddings = <<>>
    /\ xProvider = None
    /\ xK = 1
    /\ xResult = None

ServiceIdle ==
    /\ csvRows = 0
    /\ csvColumns = {}
    /\ pklEmbeddings = <<>>
    /\ phase = "offline"
    /\ database = <<>>
    /\ embeddings = <<>>
    /\ index = None
    /\ request = NoRequest
    /\ result = None
    /\ searched = None
    /\ response = None
    /\ calls = <<>>

\* the call returns or raises
exact_search_call ==
    /\ xResult = None
    /\ \E s \in exact_search(xProvider, xEmbeddings, xK) : xResult' = s.res
    /\ UNCHANGED <<xEmbeddings, xProvider, xK>>
    /\ UNCHANGED serviceVars
    /\ UNCHANGED batchVars

----------------------------------------------------------------------------
(* Specifications *)

Init == ServiceInit /\ BatchInit /\ SearchIdle

Next ==
    \/ ApplicationService_init
    \/ semantic_search_post
    \/ semantic_search_get
    \/ get_document_route
    \/ Reply

Spec == Init /\ [][Next]_vars

\* the batch embedding function on its own, the service not started
BatchSpecInit == BatchInit /\ ServiceIdle /\ SearchIdle

BatchNext ==
    \/ encode_call
    \/ encode_iteration
    \/ encode_return

SpecBatch == BatchSpecInit /\ [][BatchNext]_vars

\* exact_search on its own
SearchSpecInit == SearchInit /\ ServiceIdle /\ BatchInit

SearchNext == exact_search_call

SpecSearch == SearchSpecInit /\ [][SearchNext]_vars

----------------------------------------------------------------------------
(* Properties *)

SearchOps == {"POST /search", "GET /search"}

StrategyCalls == {"semantic_search", "exact_search"}

IndexCalls == {"index.search", "cosine_similarity"}

Count(log, ops) == Cardinality({j \in DOMAIN log : log[j].op \in ops})

\* C1: search_and_answer never raises; whatever the request and whichever
\* collaborator failed it returns one envelope, and an envelope with
\* success = FALSE has a non-empty error message and a latency_ms value.
C1_NeverRaises ==
    request.op \in SearchOps =>
        /\ result.raised = FALSE
        /\ "success" \in DOMAIN result.value
        /\ ~result.value.success =>
              /\ {"error", "latency_ms"} \subseteq DOMAIN result.value
              /\ result.value.error # <<>>
              /\ result.value.latency_ms >= 0

\* C1 witness: the search returned, the document lookup raised, and the
\* request ended in a failure envelope
C1_Witness ==
    /\ request.op \in SearchOps
    /\ searched.ok
    /\ searched.val.ids # <<>>
    /\ ~get_document(database, searched.val.ids[1]).ok
    /\ result.raised = FALSE
    /\ ~result.value.success

\* C2: whenever requests are served the embedding array and the dataset
\* have the same number of rows.
C2_MatchingRowCounts == phase = "serving" => Len(embeddings) = Len(database)

\* C3: for 1 <= k <= N the list exact_search returns is in descending score
\* order and results of equal score are in ascending document-ID order.
C3_SortedTiesAscending ==
    (xResult # None /\ xResult.ok /\ 1 <= xK /\ xK <= Len(xEmbeddings)) =>
        \A a, b \in DOMAIN xResult.val.ids :
            a < b =>
                /\ ScoreLeq(xResult.val.sims[b], xResult.val.sims[a])
                /\ ScoreEq(xResult.val.sims[a], xResult.val.sims[b]) =>
                       xResult.val.ids[a] < xResult.val.ids[b]

\* C4: exact_search with k > N and a well-formed query vector returns all N
\* document IDs, each once, instead of failing.
C4_AllResultsWhenKExceedsN ==
    (xResult # None /\ xProvider.ok /\ Len(xProvider.val) = EmbDim
                    /\ xK > Len(xEmbeddings)) =>
        /\ xResult.ok
        /\ Len(xResult.val.ids) = Len(xEmbeddings)
        /\ Range(xResult.val.ids) = 0..(Len(xEmbeddings) - 1)

\* C5: neither the approximate index search nor the exact cosine scan is
\* ever called with a zero or empty query vector.
C5_NoSearchWithDegenerateQuery ==
    \A j \in DOMAIN calls :
        calls[j].op \in IndexCalls => (calls[j].q # <<>> /\ NormSq(calls[j].q) # 0)

\* C6: when the search step returns an empty list the request fails with an
\* outcome that does not come from the handler of system errors, and the
\* generation model is not called.
C6_EmptySearchIsNoMatch ==
    (request.op \in SearchOps /\ searched.ok /\ searched.val.ids = <<>>) =>
        /\ ~result.value.success
        /\ result.via # "except"
        /\ Count(calls, {"generate"}) = 0

\* C7: over a dataset that has the columns the lookup reads,
\* GET /documents/{doc_id} answers 404 for every doc_id outside [0, N) and
\* 200 with the document for every doc_id inside.
C7_LookupStatus ==
    (request.op = "GET /documents" /\ csvColumns = Columns) =>
        IF 0 <= request.doc_id /\ request.doc_id < Len(database)
        THEN /\ response.status = 200
             /\ response.body.id = request.doc_id
             /\ response.body.question = database[request.doc_id + 1].input_text
             /\ response.body.answer = database[request.doc_id + 1].output_text
        ELSE response.status = 404

\* C8: the batch function returns one vector per input sentence in input
\* order: the provider's vector when the sentence's batch was answered, a
\* zero vector when its batch failed.
C8_OneVectorPerSentence ==
    bpc = "done" =>
        /\ Len(returned) = Len(sentences)
        /\ \A j \in DOMAIN sentences :
              returned[j] = IF ((j - 1) \div batch_size) \in failedBatches
                            THEN ZeroVec
                            ELSE ProviderVec(sentences[j])

\* C8 witness: a run with a failed batch of two sentences followed by an
\* answered batch
C8_Witness ==
    /\ bpc = "done"
    /\ batch_size = 2
    /\ Len(sentences) >= 3
    /\ 0 \in failedBatches
    /\ 1 \notin failedBatches

\* C9: a search request invokes exactly one strategy, the one its mode
\* selects, and calls the embedding provider exactly once; a Success names
\* the strategy invoked and the document of the first returned ID.
C9_OneStrategyOneEmbedding ==
    request.op \in SearchOps =>
        /\ Count(calls, StrategyCalls) = 1
        /\ calls[1].op = IF request.use_approximate THEN "semantic_search" ELSE "exact_search"
        /\ Count(calls, {"embed"}) = 1
        /\ Count(calls, IndexCalls) <= 1
        /\ \A j \in DOMAIN calls :
              calls[j].op \in IndexCalls =>
                  calls[j].op = IF request.use_approximate THEN "index.search"
                                ELSE "cosine_similarity"
        /\ result.value.success =>
              /\ result.value.search_method =
                    (IF calls[1].op = "semantic_search" THEN "approximate" ELSE "exact")
              /\ result.value.source_document.id = searched.val.ids[1]
              /\ result.value.source_document.question =
                    database[searched.val.ids[1] + 1].input_text
              /\ result.value.source_document.answer =
                    database[searched.val.ids[1] + 1].output_text
              /\ result.value.source_document.similarity_score = searched.val.sims[1]

\* C9 witness: an exact-mode request that succeeded with several results
C9_Witness ==
    /\ request.op \in SearchOps
    /\ ~request.use_approximate
    /\ result.value.success
    /\ Len(searched.val.ids) >= 2

\* C10: every provider call of the batch function but the last is followed
\* by a sleep of 1 / api_calls_per_second, whether it succeeded or failed,
\* and the last call is followed by none.
C10_DelayBetweenCalls ==
    /\ \A a \in 1..(Len(events) - 1) :
          events[a].ev = "call" =>
              /\ events[a + 1].ev = "sleep"
              /\ events[a + 1].delay = Delay(api_rate)
    /\ (bpc = "done" /\ events # <<>>) => events[Len(events)].ev = "call"

====
